---------------------------- MODULE Spec2Model ----------------------------
(***************************************************************************)
(* Contact store of src/app.py: the in-memory map CONTACTS, the id counter *)
(* NEXT_ID and the three request handlers create_contact, get_contact and  *)
(* delete_contact.                                                         *)
(*                                                                         *)
(* Spec     : requests are served one at a time; each handler is one step. *)
(* ConcSpec : handler threads interleave at the single reads and writes of *)
(*            CONTACTS and NEXT_ID (the server of app.run is threaded and  *)
(*            the handlers take no lock).                                  *)
(***************************************************************************)
EXTENDS Integers, Sequences, FiniteSets, TLC

\* ------------------------------------------------------------------ bounds
\* Creates are enabled while fewer than MaxId ids have been handed out.
MaxId == 3
\* Number of handler threads of the concurrent specification.
NumThreads == 2

\* ------------------------------------------------------------- JSON values
\* Characters str.strip() removes (a sample of Python's whitespace).
Whitespace == {" ", "\t", "\n"}

\* Strings are sequences of characters.  The sample holds the empty string,
\* a whitespace-only string, a string padded on both sides and an unpadded
\* string with inner whitespace.
SampleStrings ==
    { <<>>,
      <<"\t", " ">>,
      <<" ", "a", "\n">>,
      <<"a", " ", "b">> }

\* A JSON value: a string, or a value that is not a string (a number stands
\* for all of them: the code only asks isinstance(value, str)).
Str(s) == [type |-> "str", s |-> s]
NonStrings == { [type |-> "num", s |-> <<>>] }
Values == { Str(s) : s \in SampleStrings } \cup NonStrings

Fields == <<"name", "phone">>
FieldSet == {"name", "phone"}

\* What request.get_json(silent=True) yields: a dict holding some of the
\* fields, a JSON array, or None (no or malformed JSON body).
Payloads ==
    { [kind |-> "dict", fields |-> f] :
        f \in UNION { [D -> Values] : D \in SUBSET FieldSet } }
    \cup { [kind |-> "list", fields |-> <<>>], [kind |-> "none", fields |-> <<>>] }

\* Path ids the <int:contact_id> converter accepts.
Ids == 0 .. (MaxId + 1)

\* --------------------------------------------------------------- str.strip
RECURSIVE lstrip(_)
lstrip(s) ==
    IF s # <<>> /\ Head(s) \in Whitespace THEN lstrip(Tail(s)) ELSE s

RECURSIVE rstrip(_)
rstrip(s) ==
    IF s # <<>> /\ s[Len(s)] \in Whitespace
        THEN rstrip(SubSeq(s, 1, Len(s) - 1))
        ELSE s

\* Variant: only leading whitespace is removed.
strip_left_only(s) == lstrip(s)

strip(s) == rstrip(lstrip(s))

\* ------------------------------------------------ _validate_contact_payload
\* Variant: the emptiness test without strip().
FieldError_untrimmed(payload, field) ==
    IF field \notin DOMAIN payload.fields THEN "missing " \o field
    ELSE IF payload.fields[field].type # "str"
            \/ payload.fields[field].s = <<>>
         THEN "not a non-empty string " \o field
         ELSE ""

\* The check of one field: "" when it passes, else the abort's description.
FieldError(payload, field) ==
    IF field \notin DOMAIN payload.fields THEN "missing " \o field
    ELSE IF payload.fields[field].type # "str"
            \/ strip(payload.fields[field].s) = <<>>
         THEN "not a non-empty string " \o field
         ELSE ""

\* The loop over ("name", "phone") from position i: the first failure aborts.
RECURSIVE ValidateFrom(_, _)
ValidateFrom(payload, i) ==
    IF i > Len(Fields) THEN ""
    ELSE IF FieldError(payload, Fields[i]) # "" THEN FieldError(payload, Fields[i])
    ELSE ValidateFrom(payload, i + 1)

\* "" when the payload passes, else the description of the abort(400).
validate_contact_payload(payload) ==
    IF payload.kind # "dict" THEN "not an object"
    ELSE ValidateFrom(payload, 1)

\* Variant: the fields are stored as received.
NewContact_as_received(payload) ==
    [name |-> payload.fields["name"].s,
     phone |-> payload.fields["phone"].s]

\* The dict create_contact stores for a validated payload.
NewContact(payload) ==
    [name |-> strip(payload.fields["name"].s),
     phone |-> strip(payload.fields["phone"].s)]

\* Variant: the counter is left where it was.
Increment_none(next_id) == next_id

\* NEXT_ID += 1
Increment(next_id) == next_id + 1

\* jsonify({"id": contact_id, **contact})
Json(contact_id, contact) ==
    [id |-> contact_id, name |-> contact.name, phone |-> contact.phone]

\* ------------------------------------------------------------------- state
VARIABLES
    CONTACTS,   \* the map id -> [name, phone]
    NEXT_ID,    \* the id counter
    issued,     \* history: the ids create_contact took from NEXT_ID, in order
    deleted,    \* history: the ids a delete answered with 204
    last,       \* the last completed request and its response
    created,    \* <<exchange>>, the exchange before `last` when that was a
                \* successful create, else <<>>
    pc,         \* ConcSpec: where each handler thread stands
    request,    \* ConcSpec: the payload of the create a thread is serving
    local_id,   \* ConcSpec: a thread's local contact_id
    loaded      \* ConcSpec: the NEXT_ID a thread read for NEXT_ID += 1

threadVars == <<pc, request, local_id, loaded>>
vars == <<CONTACTS, NEXT_ID, issued, deleted, last, created, pc, request, local_id, loaded>>

Threads == 1 .. NumThreads

NoPayload == [kind |-> "none", fields |-> <<>>]

Exchange(op, payload, arg, status, body, description) ==
    [op |-> op, payload |-> payload, arg |-> arg,
     status |-> status, body |-> body, description |-> description]

\* What `created` becomes when an exchange follows `last`.
CreatedBy(l) == IF l.op = "create" /\ l.status = 201 THEN <<l>> ELSE <<>>

Init ==
    /\ CONTACTS = <<>>
    /\ NEXT_ID = 1
    /\ issued = <<>>
    /\ deleted = {}
    /\ last = Exchange("none", NoPayload, -1, 0, <<>>, "")
    /\ created = <<>>
    /\ pc = [t \in Threads |-> "idle"]
    /\ request = [t \in Threads |-> NoPayload]
    /\ local_id = [t \in Threads |-> 0]
    /\ loaded = [t \in Threads |-> 0]

\* ---------------------------------------------------- handlers, one at a time
\* Variant: the id is taken from the counter before the payload is validated.
create_contact_id_first(payload) ==
    /\ created' = CreatedBy(last)
    /\ UNCHANGED threadVars
    /\ Len(issued) < MaxId
    /\ NEXT_ID' = Increment(NEXT_ID)
    /\ IF validate_contact_payload(payload) # ""
         THEN /\ last' = Exchange("create", payload, -1, 400, <<>>,
                                  validate_contact_payload(payload))
              /\ issued' = Append(issued, NEXT_ID)
              /\ UNCHANGED <<CONTACTS, deleted>>
         ELSE LET contact_id == NEXT_ID
                  stored == (contact_id :> NewContact(payload)) @@ CONTACTS
              IN /\ CONTACTS' = stored
                 /\ issued' = Append(issued, contact_id)
                 /\ last' = Exchange("create", payload, -1, 201,
                                     <<Json(contact_id, stored[contact_id])>>, "")
                 /\ UNCHANGED deleted

\* POST /contacts
create_contact(payload) ==
    /\ created' = CreatedBy(last)
    /\ UNCHANGED threadVars
    /\ IF validate_contact_payload(payload) # ""
         THEN /\ last' = Exchange("create", payload, -1, 400, <<>>,
                                  validate_contact_payload(payload))
              /\ UNCHANGED <<CONTACTS, NEXT_ID, issued, deleted>>
         ELSE LET contact_id == NEXT_ID
                  stored == (contact_id :> NewContact(payload)) @@ CONTACTS
              IN /\ Len(issued) < MaxId
                 /\ NEXT_ID' = Increment(NEXT_ID)
                 /\ CONTACTS' = stored
                 /\ issued' = Append(issued, contact_id)
                 /\ last' = Exchange("create", payload, -1, 201,
                                     <<Json(contact_id, stored[contact_id])>>, "")
                 /\ UNCHANGED deleted

\* CONTACTS.get(contact_id): <<contact>>, or <<>> for None.
Lookup(contacts, contact_id) ==
    IF contact_id \in DOMAIN contacts THEN <<contacts[contact_id]>> ELSE <<>>

\* GET /contacts/<id>
get_contact(contact_id) ==
    /\ created' = CreatedBy(last)
    /\ LET contact == Lookup(CONTACTS, contact_id)
       IN last' = IF contact = <<>>
                    THEN Exchange("get", NoPayload, contact_id, 404, <<>>, "not found")
                    ELSE Exchange("get", NoPayload, contact_id, 200,
                                  <<Json(contact_id, contact[1])>>, "")
    /\ UNCHANGED <<CONTACTS, NEXT_ID, issued, deleted>>
    /\ UNCHANGED threadVars

\* Variant: nothing is removed.
Del_nothing(contacts, contact_id) == contacts

\* Variant: the contacts of all ids up to contact_id are removed.
Del_up_to(contacts, contact_id) ==
    [i \in { j \in DOMAIN contacts : j > contact_id } |-> contacts[i]]

\* del CONTACTS[contact_id]: the map without the key contact_id.
Del(contacts, contact_id) ==
    [i \in (DOMAIN contacts) \ {contact_id} |-> contacts[i]]

\* DELETE /contacts/<id>
delete_contact(contact_id) ==
    /\ created' = CreatedBy(last)
    /\ IF contact_id \notin DOMAIN CONTACTS
         THEN /\ last' = Exchange("delete", NoPayload, contact_id, 404, <<>>, "not found")
              /\ UNCHANGED <<CONTACTS, deleted>>
         ELSE /\ CONTACTS' = Del(CONTACTS, contact_id)
              /\ deleted' = deleted \cup {contact_id}
              /\ last' = Exchange("delete", NoPayload, contact_id, 204, <<>>, "")
    /\ UNCHANGED <<NEXT_ID, issued>>
    /\ UNCHANGED threadVars

Next ==
    \/ \E payload \in Payloads : create_contact(payload)
    \/ \E contact_id \in Ids : get_contact(contact_id)
    \/ \E contact_id \in Ids : delete_contact(contact_id)

Spec == Init /\ [][Next]_vars

\* ------------------------------------------------- handlers, interleaved
\* The payloads of the concurrent specification: one that fails validation
\* and two that pass, with different names.
ConcPayloads ==
    { NoPayload,
      [kind |-> "dict", fields |-> [f \in FieldSet |-> Str(<<" ", "a", "\n">>)]],
      [kind |-> "dict", fields |-> [f \in FieldSet |-> Str(<<"a", " ", "b">>)]] }

\* A thread returns its response and is free for the next request.
Finish(t, exchange) ==
    /\ last' = exchange
    /\ created' = CreatedBy(last)
    /\ pc' = [pc EXCEPT ![t] = "idle"]
    /\ request' = [request EXCEPT ![t] = NoPayload]
    /\ local_id' = [local_id EXCEPT ![t] = 0]
    /\ loaded' = [loaded EXCEPT ![t] = 0]

\* create_contact, lines 101-102: read and validate the payload (no shared
\* state is touched).
CreateValidate(t, payload) ==
    /\ pc[t] = "idle"
    /\ IF validate_contact_payload(payload) # ""
         THEN /\ Finish(t, Exchange("create", payload, -1, 400, <<>>,
                                    validate_contact_payload(payload)))
              /\ UNCHANGED <<CONTACTS, NEXT_ID, issued, deleted>>
         ELSE /\ Len(issued) + Cardinality({u \in Threads : pc[u] = "load_id"}) < MaxId
              /\ pc' = [pc EXCEPT ![t] = "load_id"]
              /\ request' = [request EXCEPT ![t] = payload]
              /\ UNCHANGED <<CONTACTS, NEXT_ID, issued, deleted, last, created,
                             local_id, loaded>>

\* contact_id = NEXT_ID
CreateLoadId(t) ==
    /\ pc[t] = "load_id"
    /\ local_id' = [local_id EXCEPT ![t] = NEXT_ID]
    /\ issued' = Append(issued, NEXT_ID)
    /\ pc' = [pc EXCEPT ![t] = "load_next"]
    /\ UNCHANGED <<CONTACTS, NEXT_ID, deleted, last, created, request, loaded>>

\* NEXT_ID += 1, the read of NEXT_ID
CreateLoadNext(t) ==
    /\ pc[t] = "load_next"
    /\ loaded' = [loaded EXCEPT ![t] = NEXT_ID]
    /\ pc' = [pc EXCEPT ![t] = "store_next"]
    /\ UNCHANGED <<CONTACTS, NEXT_ID, issued, deleted, last, created, request, local_id>>

\* NEXT_ID += 1, the write of NEXT_ID
CreateStoreNext(t) ==
    /\ pc[t] = "store_next"
    /\ NEXT_ID' = Increment(loaded[t])
    /\ pc' = [pc EXCEPT ![t] = "store_contact"]
    /\ UNCHANGED <<CONTACTS, issued, deleted, last, created, request, local_id, loaded>>

\* CONTACTS[contact_id] = {...}
CreateStoreContact(t) ==
    /\ pc[t] = "store_contact"
    /\ CONTACTS' = (local_id[t] :> NewContact(request[t])) @@ CONTACTS
    /\ pc' = [pc EXCEPT ![t] = "respond"]
    /\ UNCHANGED <<NEXT_ID, issued, deleted, last, created, request, local_id, loaded>>

\* return jsonify({"id": contact_id, **CONTACTS[contact_id]}), 201; the
\* subscript raises KeyError when the key is gone (an unhandled error: 500).
CreateRespond(t) ==
    /\ pc[t] = "respond"
    /\ IF local_id[t] \in DOMAIN CONTACTS
         THEN Finish(t, Exchange("create", request[t], -1, 201,
                                 <<Json(local_id[t], CONTACTS[local_id[t]])>>, ""))
         ELSE Finish(t, Exchange("create", request[t], -1, 500, <<>>, "KeyError"))
    /\ UNCHANGED <<CONTACTS, NEXT_ID, issued, deleted>>

\* get_contact: one read of the map, then the response from the dict read.
Get(t, contact_id) ==
    /\ pc[t] = "idle"
    /\ get_contact(contact_id)

\* if contact_id not in CONTACTS: abort(404)
DeleteCheck(t, contact_id) ==
    /\ pc[t] = "idle"
    /\ IF contact_id \notin DOMAIN CONTACTS
         THEN /\ Finish(t, Exchange("delete", NoPayload, contact_id, 404, <<>>,
                                    "not found"))
              /\ UNCHANGED <<CONTACTS, NEXT_ID, issued, deleted>>
         ELSE /\ pc' = [pc EXCEPT ![t] = "del"]
              /\ local_id' = [local_id EXCEPT ![t] = contact_id]
              /\ UNCHANGED <<CONTACTS, NEXT_ID, issued, deleted, last, created,
                             request, loaded>>

\* del CONTACTS[contact_id]; return ("", 204).  The del raises KeyError when
\* the key is gone (an unhandled error: 500).
DeleteDel(t) ==
    /\ pc[t] = "del"
    /\ IF local_id[t] \in DOMAIN CONTACTS
         THEN /\ CONTACTS' = Del(CONTACTS, local_id[t])
              /\ deleted' = deleted \cup {local_id[t]}
              /\ Finish(t, Exchange("delete", NoPayload, local_id[t], 204, <<>>, ""))
         ELSE /\ Finish(t, Exchange("delete", NoPayload, local_id[t], 500, <<>>,
                                    "KeyError"))
              /\ UNCHANGED <<CONTACTS, deleted>>
    /\ UNCHANGED <<NEXT_ID, issued>>

ConcNext ==
    \E t \in Threads :
        \/ \E payload \in ConcPayloads : CreateValidate(t, payload)
        \/ CreateLoadId(t)
        \/ CreateLoadNext(t)
        \/ CreateStoreNext(t)
        \/ CreateStoreContact(t)
        \/ CreateRespond(t)
        \/ \E contact_id \in Ids : Get(t, contact_id)
        \/ \E contact_id \in Ids : DeleteCheck(t, contact_id)
        \/ DeleteDel(t)

ConcSpec == Init /\ [][ConcNext]_vars

\* ---------------------------------------------------- properties of Spec
Range(f) == { f[i] : i \in DOMAIN f }

\* s holds a character that is not whitespace.
HasText(s) == \E i \in 1 .. Len(s) : s[i] \notin Whitespace

\* t begins and ends with a character that is not whitespace.
Trimmed(t) == t # <<>> /\ t[1] \notin Whitespace /\ t[Len(t)] \notin Whitespace

\* t is s without its leading and trailing whitespace.
IsTrimOf(t, s) ==
    /\ Trimmed(t)
    /\ \E i \in 1 .. Len(s) :
         /\ i + Len(t) - 1 <= Len(s)
         /\ SubSeq(s, i, i + Len(t) - 1) = t
         /\ \A k \in 1 .. Len(s) :
              (k < i \/ k > i + Len(t) - 1) => s[k] \in Whitespace

Created(l) == l.op = "create" /\ l.status = 201 /\ Len(l.body) = 1

\* C1: every successful create returns an id strictly greater than every id
\* an earlier create returned, whatever was deleted in between; the first
\* create returns 1 and no id is returned twice.
C1_IdsStrictlyIncrease ==
    /\ \A i, j \in 1 .. Len(issued) : i < j => issued[i] < issued[j]
    /\ issued # <<>> => issued[1] = 1
    /\ Created(last) => last.body[1].id = issued[Len(issued)]

\* A create returned id 3 after id 1 had been deleted.
C1_Witness ==
    /\ Created(last)
    /\ last.body[1].id = 3
    /\ 1 \in deleted

\* C2: a get of the id a valid create just returned answers 200 with that id
\* and the payload's name and phone without surrounding whitespace, the
\* record the create returned.
C2_RoundTrip ==
    (last.op = "get" /\ created # <<>> /\ last.arg = created[1].body[1].id) =>
        /\ last.status = 200
        /\ last.body = created[1].body
        /\ last.body[1].id = last.arg
        /\ \A f \in FieldSet : f \in DOMAIN created[1].payload.fields
        /\ IsTrimOf(last.body[1].name, created[1].payload.fields["name"].s)
        /\ IsTrimOf(last.body[1].phone, created[1].payload.fields["phone"].s)

\* A get right after the create of a payload with a padded name.
C2_Witness ==
    /\ last.op = "get"
    /\ created # <<>>
    /\ last.arg = created[1].body[1].id
    /\ created[1].payload.fields["name"].s = <<" ", "a", "\n">>
    /\ last.status = 200
    /\ last.body[1].name = <<"a">>

\* C3: get and delete answer 404 for every id no create returned and for
\* every id already deleted.
C3_NotFound ==
    [][ (/\ last'.op \in {"get", "delete"}
         /\ (last'.arg \notin Range(issued) \/ last'.arg \in deleted))
        => last'.status = 404 ]_vars

\* A second delete of a deleted id was answered 404.
C3_Witness ==
    /\ last.op = "delete"
    /\ last.arg \in deleted
    /\ last.status = 404

\* The payload is a dict whose name and phone are strings holding text.
WellFormed(payload) ==
    /\ payload.kind = "dict"
    /\ \A f \in FieldSet :
         /\ f \in DOMAIN payload.fields
         /\ payload.fields[f].type = "str"
         /\ HasText(payload.fields[f].s)

\* C4: create answers 400 when the payload is no object, lacks name or
\* phone, or holds a name or phone that is no string or is empty after
\* trimming; every other payload is accepted with 201.
C4_Validation ==
    last.op = "create" =>
        /\ last.status \in {201, 400}
        /\ last.status = 201 <=> WellFormed(last.payload)

\* A create with a whitespace-only name was answered 400.
C4_Witness ==
    /\ last.op = "create"
    /\ last.payload.kind = "dict"
    /\ DOMAIN last.payload.fields = FieldSet
    /\ last.payload.fields["name"] = Str(<<"\t", " ">>)
    /\ last.payload.fields["phone"] = Str(<<"a", " ", "b">>)
    /\ last.status = 400

\* C6: every stored contact has a name and a phone that hold text and
\* neither begin nor end with whitespace.
C6_StoredFieldsTrimmed ==
    \A i \in DOMAIN CONTACTS :
        /\ DOMAIN CONTACTS[i] = FieldSet
        /\ HasText(CONTACTS[i].name) /\ Trimmed(CONTACTS[i].name)
        /\ HasText(CONTACTS[i].phone) /\ Trimmed(CONTACTS[i].phone)

\* A contact created from padded fields is stored.
C6_Witness ==
    /\ Created(last)
    /\ last.payload.fields["name"].s = <<" ", "a", "\n">>
    /\ last.payload.fields["phone"].s = <<" ", "a", "\n">>
    /\ last.body[1].id \in DOMAIN CONTACTS

\* C7: a successful delete removes the contact of its id and nothing else:
\* the other contacts keep id, name and phone and the counter stays, so the
\* next create returns an id above every id returned so far.
C7_DeleteFrame ==
    [][ /\ (last'.op = "delete" /\ last'.status = 204) =>
              /\ last'.arg \in DOMAIN CONTACTS
              /\ DOMAIN CONTACTS' = DOMAIN CONTACTS \ {last'.arg}
              /\ \A i \in DOMAIN CONTACTS' : CONTACTS'[i] = CONTACTS[i]
              /\ NEXT_ID' = NEXT_ID
        /\ (Created(last') /\ deleted # {}) =>
              /\ last'.body[1].id \notin deleted
              /\ last'.body[1].id = Len(issued) + 1 ]_vars

\* Create A, create B, delete A: B is still stored and the create of C
\* returned id 3.
C7_Witness ==
    /\ issued = <<1, 2, 3>>
    /\ deleted = {1}
    /\ DOMAIN CONTACTS = {2, 3}
    /\ Created(last)
    /\ last.body[1].id = 3

\* C10: a rejected create, a rejected get or delete and a successful get
\* leave the map and the counter as they were.
C10_NoEffect ==
    [][ last'.status \in {400, 404, 200} =>
            /\ CONTACTS' = CONTACTS
            /\ NEXT_ID' = NEXT_ID ]_vars

\* A create was rejected while contacts are stored, and the counter is one
\* above the number of successful creates.
C10_Witness ==
    /\ last.op = "create"
    /\ last.status = 400
    /\ CONTACTS # <<>>
    /\ NEXT_ID = Len(issued) + 1

\* ------------------------------------------------ properties of ConcSpec
\* C5: no two creates take the same id, and no create stores its contact
\* over a contact another create stored.
C5_NoSharedId ==
    [][ /\ \A i, j \in 1 .. Len(issued') : i # j => issued'[i] # issued'[j]
        /\ \A t \in Threads :
             (pc[t] = "store_contact" /\ pc'[t] = "respond")
                 => local_id[t] \notin DOMAIN CONTACTS ]_vars

\* C8: a create of a valid payload ends with 201 and a body holding its id
\* and its trimmed name and phone, whatever runs between its store and its
\* response.
C8_CreateCompletes ==
    [][ \A t \in Threads :
          (pc[t] = "respond" /\ pc'[t] = "idle") =>
              /\ last'.op = "create"
              /\ last'.status = 201
              /\ Len(last'.body) = 1
              /\ last'.body[1].id = local_id[t]
              /\ IsTrimOf(last'.body[1].name, request[t].fields["name"].s)
              /\ IsTrimOf(last'.body[1].phone, request[t].fields["phone"].s) ]_vars

\* C9: a delete ends with 204 or with 404 and with nothing else, also when
\* another delete of the same id runs between its check and its removal.
C9_DeleteOutcomes ==
    last.op = "delete" => last.status \in {204, 404}

=============================================================================
